---- MODULE Spec2Model ----
(***************************************************************************)
(* Model of modelscraper's crawl orchestration (ScrapeWorker), its parse   *)
(* stage (BaseParser / HTMLParser) and its record model (Source, Attr,     *)
(* Template, Phase).                                                       *)
(*                                                                         *)
(* Strings are sequences of integer tokens: <<>> is the empty string, a    *)
(* page url k is <<k>> with k in 1..MaxUrl, and negative tokens stand for  *)
(* the literal characters that str.format and repr add.  An attribute      *)
(* value is a sequence of strings (the tuple str_as_tuple makes of it).    *)
(***************************************************************************)
EXTENDS Integers, Sequences, FiniteSets, Bags, TLC

\* ---- bounds -------------------------------------------------------------
MaxUrl == 2
MaxItems == 3
MaxLinks == 1
MaxRuns == 2
MaxToParse == 3
MaxFuncs == 3

\* ---- strings and values ---------------------------------------------------
EmptyStr == <<>>
TitleText == <<-9>>

\* A format template (src_template): the literal text before its slot and
\* whether it has a slot.  "{}" is SlotTpl; "" is falsy.
SlotTpl == [text |-> <<>>, slot |-> TRUE]

\* str.format(template, text)
Format(tpl, text) == tpl.text \o (IF tpl.slot THEN text ELSE <<>>)

RECURSIVE ReprTuple(_)
\* str() of a tuple of strings, as format() renders a non-string argument.
ReprTuple(v) ==
  IF v = <<>> THEN <<-3>> ELSE <<-2>> \o Head(v) \o <<-4>> \o ReprTuple(Tail(v))

Truthy(v) == v # <<>>

\* ---- record model ---------------------------------------------------------
Range(s) == { s[k] : k \in DOMAIN s }

NoAttrs == [n \in {} |-> <<>>]

\* Python's None among the strings a field can hold.
None == "<None>"

\* The truth value of a field holding None or a string.
IsSet(v) == v \notin {None, ""}

\* The default of Source.retries.
Retries == 10

\* components.Source with the class defaults for the fields not given.
Source(url, active, duplicate) ==
  [url |-> url, active |-> active, duplicate |-> duplicate, attrs |-> NoAttrs,
   src_template |-> SlotTpl, copy_attrs |-> <<>>, parent |-> FALSE,
   retries |-> Retries, from_db |-> None]

DefaultSource == Source(EmptyStr, TRUE, FALSE)

\* The default of Attr.source_condition, {}.
NoCondition == [n \in {} |-> <<>>]

\* components.Attr as configured in a template: has_source tells whether a
\* nested Source is declared; attr_condition is "" when unset; func and
\* source_condition are at their defaults.
Attr(name, has_source, source, attr_condition) ==
  [name |-> name, has_source |-> has_source, source |-> source,
   attr_condition |-> attr_condition, func |-> <<>>, source_condition |-> NoCondition]

\* components.Template: attrs is the ordered mapping of Attr definitions,
\* db tells whether a sink is declared.
Template(name, required, db, attrs, has_source, source) ==
  [name |-> name, required |-> required, db |-> db, attrs |-> attrs,
   has_source |-> has_source, source |-> source]

\* Template.__attrs_post_init__, were its elif branch missing.
TemplatePostInit_KindOnly(db, table, db_type) ==
  [raised |-> IsSet(db_type) /\ ~(IsSet(db) /\ IsSet(table))]

\* Template.__attrs_post_init__, the tests of db, table and db_type: whether
\* it raises.
TemplatePostInit(db, table, db_type) ==
  [raised |-> IF IsSet(db_type) /\ ~(IsSet(db) /\ IsSet(table)) THEN TRUE
              ELSE (IsSet(db) \/ IsSet(table)) /\ ~IsSet(db_type)]

\* components.Phase
Phase(name, active, repeat, n_workers, sources, templates) ==
  [name |-> name, active |-> active, repeat |-> repeat, n_workers |-> n_workers,
   sources |-> sources, templates |-> templates, synchronize |-> FALSE]

\* ScrapeWorker._apply_src_template, for a string argument
ApplySrcTemplate(source, text) ==
  IF source.src_template.text # <<>> \/ source.src_template.slot
  THEN Format(source.src_template, text)
  ELSE text

\* ---- Attr: construction and pipeline ------------------------------------------
\* A kwargs bundle is a set of <<key, value>> pairs.  The kws argument of
\* Attr(...) is [type, val]: type "dict" with val one bundle (the default is
\* the empty dict), or type "list" or "tuple" with val a sequence of bundles.
\* func is a tuple of function names.
NoKwargs == {}
Bundles == { NoKwargs, { <<"k", 1>> } }
FuncNames == { "f", "g", "h" }

\* Attr.__attrs_post_init__: the kws it leaves, and whether it raised (a tuple
\* has no append).
AttrPostInit(func, kws) ==
  LET kws1 == IF kws.type \notin {"list", "tuple"}
              THEN [type |-> "tuple", val |-> <<kws.val>>]
              ELSE kws
      difference == Len(func) - Len(kws1.val)
  IN  IF difference > 0
      THEN IF kws1.type = "tuple"
           THEN [kws |-> kws1, raised |-> TRUE]
           ELSE [kws |-> [kws1 EXCEPT !.val = @ \o [j \in 1..difference |-> NoKwargs]],
                 raised |-> FALSE]
      ELSE [kws |-> kws1, raised |-> FALSE]

\* parse_funcs[0](elements, **kws[0]): the transform functions are left
\* uninterpreted, a value is the sequence of the applications that made it.
CallFunc(f, elements, kw) == Append(elements, <<f, kw>>)

\* _apply_funcs, were the recursion to pass kws on instead of kws[1:].
RECURSIVE ApplyFuncs_SameKws(_, _, _)
ApplyFuncs_SameKws(elements, parse_funcs, kws) ==
  IF parse_funcs = <<>> \/ kws = <<>>
  THEN [raised |-> TRUE, val |-> <<>>]
  ELSE IF Len(parse_funcs) = 1
       THEN [raised |-> FALSE, val |-> CallFunc(parse_funcs[1], elements, kws[1])]
       ELSE ApplyFuncs_SameKws(CallFunc(parse_funcs[1], elements, kws[1]),
                               Tail(parse_funcs), kws)

RECURSIVE ApplyFuncs(_, _, _)
\* BaseParser._apply_funcs: the value, or raised when parse_funcs[0] or kws[0]
\* does not exist (IndexError).
ApplyFuncs(elements, parse_funcs, kws) ==
  IF parse_funcs = <<>> \/ kws = <<>>
  THEN [raised |-> TRUE, val |-> <<>>]
  ELSE IF Len(parse_funcs) = 1
       THEN [raised |-> FALSE, val |-> CallFunc(parse_funcs[1], elements, kws[1])]
       ELSE ApplyFuncs(CallFunc(parse_funcs[1], elements, kws[1]),
                       Tail(parse_funcs), Tail(kws))

\* ---- frontier ---------------------------------------------------------------
\* The part of the ScrapeWorker a handler reads and writes is threaded through
\* the operators below as one record w:
\*   source_q, seen, forwarded, to_forward, to_parse   the fields of that name
\*   store_q      the batches the current handler put on the sinks' store_q
\*   new_sources  the (objct, attr) pairs registered by _gen_attrs
\*   sink         what the sink returns on read: url -> stored attribute values
\*   crashed      an exception left the handler
\*   accepted     (history) urls put on the live queue so far, by any path
\*   admitted     (history) urls put on the live queue by _add_source so far
\*   calls        (history) the enqueue operations of the current handler
\*   was_reset    (history) reset_source_queue ran in the current handler

\* One entry of calls.
Call(w, source, via, queued, deferred) ==
  [src |-> source, via |-> via, queued |-> queued, deferred |-> deferred,
   in_seen |-> source.url \in w.seen, in_forwarded |-> source.url \in w.forwarded,
   was_accepted |-> source.url \in w.accepted,
   was_admitted |-> source.url \in w.admitted]

\* Queue.put on source_q, with its histories.
PutSource(w, source, via) ==
  [w EXCEPT !.source_q = Append(@, source),
            !.accepted = @ \cup {source.url},
            !.admitted = IF via = "spawn" THEN @ \cup {source.url} ELSE @,
            !.calls = Append(@, Call(w, source, via, TRUE, FALSE))]

\* _add_source, were it to forward every inactive source and to admit an
\* active one by the test alone.
AddSource_ForwardAll(w, source) ==
  IF /\ source.active
     /\ Truthy(source.url)
     /\ (source.url \notin w.seen \/ source.duplicate)
     /\ source.url \notin w.forwarded
  THEN [PutSource([w EXCEPT !.to_parse = @ + 1], source, "spawn")
          EXCEPT !.seen = @ \cup {source.url}]
  ELSE IF ~source.active
       THEN [w EXCEPT !.to_forward = Append(@, source),
                      !.forwarded = @ \cup {source.url},
                      !.calls = Append(@, Call(w, source, "spawn", FALSE, TRUE))]
       ELSE [w EXCEPT !.calls = Append(@, Call(w, source, "spawn", FALSE, FALSE))]

\* ScrapeWorker._add_source
AddSource(w, source) ==
  IF /\ Truthy(source.url)
     /\ (source.url \notin w.seen \/ source.duplicate)
     /\ source.url \notin w.forwarded
  THEN IF source.active
       THEN [PutSource([w EXCEPT !.to_parse = @ + 1], source, "spawn")
               EXCEPT !.seen = @ \cup {source.url}]
       ELSE [w EXCEPT !.to_forward = Append(@, source),
                      !.forwarded = @ \cup {source.url},
                      !.calls = Append(@, Call(w, source, "spawn", FALSE, TRUE))]
  ELSE [w EXCEPT !.calls = Append(@, Call(w, source, "spawn", FALSE, FALSE))]

\* reset_source_queue, were it to clear the seen set with the queue.
ResetSourceQueue_ClearSeen(w) ==
  [w EXCEPT !.source_q = <<>>, !.was_reset = TRUE, !.seen = {}]

\* ScrapeWorker.reset_source_queue
ResetSourceQueue(w) == [w EXCEPT !.source_q = <<>>, !.was_reset = TRUE]

\* ---- spawning from an Attr ------------------------------------------------
\* ScrapeWorker.value_is_new.  Its first statement reads self.db, an attribute
\* ScrapeWorker never sets (its sinks are in self.dbs): the call raises
\* AttributeError before anything is read or compared.
ValueIsNew(w, objct, uri, name) == "AttributeError"

\* ScrapeWorker._evaluate_condition, for conditions of the form '== <tuple>'
\* (source_condition maps an attr name to the tuple): the value of the named
\* attr is a tuple, not a list, so it is compared whole. "KeyError" when the
\* record has no attr of that name.
EvaluateCondition(objct, attr) ==
  IF \E name \in DOMAIN attr.source_condition : name \notin DOMAIN objct.attrs
  THEN "KeyError"
  ELSE IF \A name \in DOMAIN attr.source_condition :
             LET val == objct.attrs[name]
             IN  ~(Truthy(val) /\ val # attr.source_condition[name])
       THEN "True" ELSE "False"

\* The attrs a Source spawned from an Attr gets: the copies of the record's
\* attrs named by copy_attrs (ScrapeWorker._gen_source, the copy_attrs block).
CopiedAttrs(objct, attrs_to_copy) ==
  [n \in { attrs_to_copy[k] : k \in DOMAIN attrs_to_copy } |-> objct.attrs[n]]

\* The assert of that block.
CopyAssertHolds(objct, attrs_to_copy) ==
  \A k \in DOMAIN attrs_to_copy : attrs_to_copy[k] \in DOMAIN objct.attrs

\* One pass of the loop of ScrapeWorker._gen_source, for attr.value[k].
GenSourceValue(w, objct, attr, k) ==
  LET value == attr.value[k]
      url == ApplySrcTemplate(attr.source, value)
      copies == attr.source.copy_attrs # <<>>
      attrs == IF copies THEN CopiedAttrs(objct, attr.source.copy_attrs) ELSE NoAttrs
      new_source == [attr.source EXCEPT !.url = url, !.attrs = attrs]
  IN  IF EvaluateCondition(objct, attr) = "KeyError"
      THEN [w EXCEPT !.crashed = TRUE]
      ELSE IF EvaluateCondition(objct, attr) = "False"
      THEN w
      ELSE IF copies /\ ~CopyAssertHolds(objct, attr.source.copy_attrs)
      THEN [w EXCEPT !.crashed = TRUE]
      ELSE IF attr.attr_condition # ""
           THEN IF ValueIsNew(w, objct, value, attr.attr_condition) = "AttributeError"
                THEN [w EXCEPT !.crashed = TRUE]
                ELSE IF ValueIsNew(w, objct, value, attr.attr_condition) = "True"
                     THEN AddSource(w, new_source)
                     ELSE w
           ELSE AddSource(w, new_source)

RECURSIVE GenSourceFrom(_, _, _, _)
GenSourceFrom(w, objct, attr, k) ==
  IF k > Len(attr.value) \/ w.crashed THEN w
  ELSE GenSourceFrom(GenSourceValue(w, objct, attr, k), objct, attr, k + 1)

\* ScrapeWorker._gen_source
GenSource(w, objct, attr) == GenSourceFrom(w, objct, attr, 1)

\* ---- parse stage ------------------------------------------------------------
\* BaseModel._replicate called without arguments: a new instance of the class
\* with every field at its default.
ReplicateSource(source) == DefaultSource

\* BaseParser._copy_attrs: each of its branches reads the names copy_attrs and
\* new_source, which the function never binds, so it raises.
CopyAttrs(w, objct, new_source) == [w EXCEPT !.crashed = TRUE]

\* HTMLParser._source_from_object.  objct.source is the template's nested
\* Source; source is the Source being parsed.
SourceFromObject(w, objct, source) ==
  LET replica == ReplicateSource(objct.source)
      url == IF Truthy(replica.url) THEN replica.url
             ELSE IF "url" \in DOMAIN objct.attrs
                  THEN ApplySrcTemplate(source, ReprTuple(objct.attrs["url"]))
                  ELSE ApplySrcTemplate(source, source.url)
      new_source == [replica EXCEPT !.url = url]
  IN  IF new_source.copy_attrs # <<>>
      THEN CopyAttrs(w, objct, new_source)
      ELSE AddSource(w,
             IF new_source.parent
             THEN [new_source EXCEPT !.attrs = ("_parent" :> objct.attrs["url"])]
             ELSE new_source)

\* The attr _gen_attrs yields for a template attr: attr._replicate(name=,
\* value=, func='', selector=None, source=), every other field at its default.
NewAttr(attr, parsed) ==
  [name |-> attr.name, value |-> parsed, has_source |-> attr.has_source,
   source |-> attr.source, attr_condition |-> "", func |-> <<>>,
   source_condition |-> NoCondition]

\* The attrs of the record _gen_objects assembles for one extracted item:
\* the url attr Template.__attrs_post_init__ synthesizes, then the attrs of
\* the Source, then the attrs _gen_attrs yields.
ObjectAttrs(template, item, source) ==
  LET synthesized == IF Truthy(source.url) THEN ("url" :> <<source.url>>) ELSE NoAttrs
      extracted == [n \in { template.attrs[k].name : k \in DOMAIN template.attrs }
                      |-> item[n]]
  IN  extracted @@ source.attrs @@ synthesized

\* no_value of _gen_objects
NoValue(template, item) ==
  Cardinality({ k \in DOMAIN template.attrs : ~Truthy(item[template.attrs[k].name]) })

\* The test of _gen_objects that skips an item as a failed extraction.
ExtractionFailed(template, item, source) ==
  NoValue(template, item) =
    Cardinality(DOMAIN ObjectAttrs(template, item, source))
      - Cardinality(DOMAIN source.attrs)

RECURSIVE RegisterSources(_, _, _, _)
\* The appends to parent.new_sources that _gen_attrs makes for one item.
RegisterSources(new_sources, objct, template, k) ==
  IF k > Len(template.attrs) THEN new_sources
  ELSE LET attr == template.attrs[k]
           parsed == objct.item[attr.name]
       IN  RegisterSources(
             IF attr.has_source /\ Truthy(parsed)
             THEN Append(new_sources,
                         [objct |-> objct.record, attr |-> NewAttr(attr, parsed)])
             ELSE new_sources,
             objct, template, k + 1)

RECURSIVE GenObjectsFrom(_, _, _, _, _)
\* BaseParser._gen_objects from item k on; r is [w, objects].
GenObjectsFrom(r, template, extracted, source, k) ==
  IF k > Len(extracted) \/ r.w.crashed THEN r
  ELSE LET item == extracted[k]
           record == [name |-> template.name, url |-> source.url,
                      attrs |-> ObjectAttrs(template, item, source)]
           w1 == [r.w EXCEPT !.new_sources =
                    RegisterSources(@, [item |-> item, record |-> record], template, 1)]
           w2 == IF template.has_source
                 THEN SourceFromObject(w1, [attrs |-> record.attrs,
                                            source |-> template.source], source)
                 ELSE w1
       IN  IF ExtractionFailed(template, item, source)
           THEN GenObjectsFrom([r EXCEPT !.w = w1], template, extracted, source, k + 1)
           ELSE GenObjectsFrom([w |-> w2, objects |-> Append(r.objects, record)],
                               template, extracted, source, k + 1)

\* BaseParser._gen_objects
GenObjects(w, template, extracted, source) ==
  GenObjectsFrom([w |-> w, objects |-> <<>>], template, extracted, source, 1)

\* HTMLParser._extract: the items the template's selector finds in the data.
Extract(data, template) == data[template.name]

RECURSIVE ParseFrom(_, _, _, _, _)
\* The loop of BaseParser.parse from template k on, with what parse_sources
\* does with each yielded batch (put it on its sink's store_q when db is set).
ParseFrom(w, templates, data, source, k) ==
  IF k > Len(templates) \/ w.crashed THEN w
  ELSE LET template == templates[k]
           r == GenObjects(w, template, Extract(data, template), source)
           w1 == IF r.objects = <<>> /\ template.required /\ ~r.w.crashed
                 THEN ResetSourceQueue(r.w) ELSE r.w
           w2 == IF template.db /\ ~w1.crashed
                 THEN [w1 EXCEPT !.store_q =
                         Append(@, [name |-> template.name, objects |-> r.objects])]
                 ELSE w1
       IN  ParseFrom(w2, templates, data, source, k + 1)

RECURSIVE SpawnFrom(_, _)
\* for new_source in self.new_sources: self._gen_source(*new_source)
SpawnFrom(w, k) ==
  IF k > Len(w.new_sources) \/ w.crashed THEN w
  ELSE SpawnFrom(GenSource(w, w.new_sources[k].objct, w.new_sources[k].attr), k + 1)

\* BaseParser._prepare_templates: it has no return statement; what __init__
\* stores in parser.templates is None.
PrepareTemplates(templates) == [none |-> TRUE, list |-> <<>>]

\* The body of the loop of parse_sources for a fetched source: seen.add,
\* parser.parse (run as its batches are consumed), the spawning of the
\* registered sources.  own is the source's own template list, <<>> if none.
ParseSource(w, src, own, data, parser) ==
  LET w0 == [w EXCEPT !.seen = @ \cup {src.url}]
      templates == IF own # <<>> THEN own ELSE parser.templates.list
  IN  IF own = <<>> /\ parser.templates.none
      THEN [w0 EXCEPT !.crashed = TRUE]
      ELSE LET w1 == ParseFrom(w0, templates, data, src, 1)
               w2 == SpawnFrom(w1, 1)
           IN  IF w2.crashed THEN w2 ELSE [w2 EXCEPT !.new_sources = <<>>]

\* ---- fetched data ------------------------------------------------------------
\* What a fetch returns for a source is, per template name, the items the
\* template's selector finds in it, each item giving the result of every attr's
\* pipeline (<<>> for an empty result).
Item(title, url) == ("title" :> title) @@ ("url" :> url)

SeqsUpTo(S, n) == UNION { [1..k -> S] : k \in 0..n }

\* An item with a title and a link to page k; the link of item 0 is the empty
\* string.
LinkItem(k) == Item(<<TitleText>>, IF k = 0 THEN <<EmptyStr>> ELSE << <<k>> >>)

LinkSeqs ==
  { s \in SeqsUpTo(0..MaxUrl, MaxLinks) : \A a, b \in DOMAIN s : a < b => s[a] < s[b] }

\* Up to MaxLinks items, their links in increasing order.
LinkData == { [k \in DOMAIN s |-> LinkItem(s[k])] : s \in LinkSeqs }

\* The url of a list page, "/list".
ListUrl == <<-7>>

\* A list page with n entries, each with a title and its own url.
EntryData == { [k \in 1..n |-> LinkItem(k)] : n \in 0..MaxItems }

\* The texts of the prices 8 and 10.
Prices == { <<8>>, <<10>> }

\* A page with one offer: a price and a link.
OfferData == { << ("price" :> <<p>>) @@ ("url" :> << <<1>> >>) >> : p \in Prices }

\* A page with one record of three attrs.
RecordData == { << ("price" :> <<p>>) @@ LinkItem(1) >> : p \in Prices }

\* A page with up to MaxItems notes, each with a title or with none.
NoteData == SeqsUpTo({ ("title" :> <<>>), ("title" :> <<TitleText>>) }, MaxItems)

\* The items the selector of the template of that name can find in what the
\* fetch of src returned.
ItemsOf(name, src) ==
  CASE name = "item" -> LinkData
    [] name = "req" -> { <<>>, << ("title" :> <<TitleText>>) >> }
    [] name = "entry" -> IF src.url = ListUrl THEN EntryData ELSE { <<>> }
    [] name = "offer" -> IF src.url = ListUrl THEN OfferData ELSE { <<>> }
    [] name = "record" -> IF src.url = ListUrl THEN RecordData ELSE { <<>> }
    [] name = "deal" -> IF src.url = ListUrl THEN OfferData ELSE { <<>> }
    [] name = "note" -> IF src.url = ListUrl THEN NoteData ELSE { <<>> }

\* The data a fetch of src can return in a phase with the given templates.
DocData(templates, src) ==
  LET names == { templates[k].name : k \in DOMAIN templates }
  IN  { d \in [names -> UNION { ItemsOf(n, src) : n \in names }] :
          \A n \in names : d[n] \in ItemsOf(n, src) }

NoData == [n \in {} |-> <<>>]

\* ---- orchestrator -----------------------------------------------------------
VARIABLES
  phases,       \* model.phases
  i,            \* the index i of run()
  phase,        \* the phase run() is working on
  pc,           \* where run() stands: "loop" (the head of its loop), "parse"
                \* (in parse_sources), "done", "crashed" (an exception left it),
                \* "raised" (__init__ raised: there is no worker to run)
  to_parse, parsed, source_q, parse_q, seen, forwarded, to_forward, new_sources,
  parser,       \* [templates |-> what the parser's __init__ stored]
  pools,        \* the fetch pools spawned so far: [n, stop, run], run the value
                \* of i when the pool was spawned
  inflight,     \* bag of [src, pool]: sources a fetch worker holds
  sink,         \* what the sinks hold: url -> attribute values
  accepted, admitted,            \* histories, see the frontier
  calls, was_reset, store_q,     \* what the current handler did, see the frontier
  doc,          \* the fetched source the current handler parsed, if it parsed one
  an_attr,      \* an Attr on its own: the arguments of its constructor, what
                \* __attrs_post_init__ made of them, the value of its pipeline
  a_template    \* a Template on its own: the arguments of its constructor, the
                \* call that made it, whether __attrs_post_init__ raised

crawl_vars == <<phases, i, phase, pc, to_parse, parsed, source_q, parse_q, seen,
                forwarded, to_forward, new_sources, parser, pools, inflight, sink,
                accepted, admitted, calls, was_reset, store_q, doc>>

vars == <<crawl_vars, an_attr, a_template>>

\* The record the handlers' operators work on, from the variables.
World ==
  [source_q |-> source_q, seen |-> seen, forwarded |-> forwarded,
   to_forward |-> to_forward, to_parse |-> to_parse, store_q |-> <<>>,
   new_sources |-> new_sources, sink |-> sink, crashed |-> FALSE,
   accepted |-> accepted, admitted |-> admitted, calls |-> <<>>, was_reset |-> FALSE]

\* The variables after a handler, from its record.
Becomes(w) ==
  /\ source_q' = w.source_q
  /\ seen' = w.seen
  /\ forwarded' = w.forwarded
  /\ to_forward' = w.to_forward
  /\ to_parse' = w.to_parse
  /\ store_q' = w.store_q
  /\ new_sources' = w.new_sources
  /\ accepted' = w.accepted
  /\ admitted' = w.admitted
  /\ calls' = w.calls
  /\ was_reset' = w.was_reset

\* A step that is no handler of the orchestrator: the records of the current
\* handler are cleared, and an_attr is not touched.
NoDoc == [parsed |-> FALSE, src |-> DefaultSource, own |-> FALSE, data |-> NoData]

Quiet ==
  /\ calls' = <<>> /\ was_reset' = FALSE /\ store_q' = <<>> /\ doc' = NoDoc
  /\ UNCHANGED <<an_attr, a_template>>

\* The keys of self.dbs: the names of the templates, of any phase, that
\* declare a sink.
SinkNames ==
  UNION { { phases[p].templates[k].name :
              k \in { j \in DOMAIN phases[p].templates : phases[p].templates[j].db } } :
          p \in DOMAIN phases }

RECURSIVE PutAll(_, _, _, _)
\* for source in <list>: if <keep>: self.source_q.put(source); self.to_parse += 1
\* For a seed with from_db, self.dbs[source.from_db].read(...) comes first: a
\* KeyError when no sink has that name, and a result that is not used.
PutAll(w, sources, via, k) ==
  IF k > Len(sources) \/ w.crashed THEN w
  ELSE PutAll(IF via = "seed" /\ IsSet(sources[k].from_db)
                   /\ sources[k].from_db \notin SinkNames
              THEN [w EXCEPT !.crashed = TRUE]
              ELSE IF via = "seed" /\ ~sources[k].active THEN w
              ELSE PutSource([w EXCEPT !.to_parse = @ + 1], sources[k], via),
              sources, via, k + 1)

\* ScrapeWorker.get_scraped_urls: the url of every object the sinks of the
\* phase's templates hold. The urls read back are the keys of the sink, and
\* compare with the url of a Source.
GetScrapedUrls(w, ph) ==
  IF \E k \in DOMAIN ph.templates : ph.templates[k].db THEN DOMAIN w.sink ELSE {}

\* add_sources, were the seeds put ahead of the forwarded sources.
AddSources_SeedsFirst(w, ph) ==
  PutAll(PutAll(w, ph.sources, "seed", 1), w.to_forward, "fwd", 1)

\* ScrapeWorker.add_sources
AddSources(w, ph) ==
  LET urls_in_db == IF ph.synchronize THEN GetScrapedUrls(w, ph) ELSE {}
      NotInDb(s) == s.url \notin urls_in_db
  IN  PutAll(PutAll(w, SelectSeq(w.to_forward, NotInDb), "fwd", 1),
             ph.sources, "seed", 1)

\* The default of ScrapeModel.num_getters.
NumGetters == 1

\* spawn_workforce, were it to start the new pool without setting the stop
\* event of the workers in place.
SpawnPool_KeepRunning(ps, ph, run) ==
  Append(ps, [n |-> IF ph.n_workers # 0 THEN ph.n_workers ELSE NumGetters,
              stop |-> FALSE, run |-> run])

\* ScrapeWorker.spawn_workforce, the pools: the stop event of the workers in
\* place is set, and a pool of n_workers workers (num_getters when n_workers
\* is 0) is started.
SpawnPool(ps, ph, run) ==
  Append([k \in DOMAIN ps |-> IF k = Len(ps) THEN [ps[k] EXCEPT !.stop = TRUE] ELSE ps[k]],
         [n |-> IF ph.n_workers # 0 THEN ph.n_workers ELSE NumGetters,
          stop |-> FALSE, run |-> run])

\* ScrapeWorker.spawn_workforce, the parser: parser(parent=, templates=)
SpawnParser(ph) == [templates |-> PrepareTemplates(ph.templates)]

\* The phase moved from its place to the tail.
Repeated_Moved(ph) ==
  IF ph.repeat
  THEN SubSeq(phases, 1, i - 1) \o SubSeq(phases, i + 1, Len(phases)) \o <<ph>>
  ELSE phases

\* The phase put back right behind the running one instead of at the tail.
Repeated_Next(ph) ==
  IF ph.repeat
  THEN SubSeq(phases, 1, i) \o <<ph>> \o SubSeq(phases, i + 1, Len(phases))
  ELSE phases

\* run(), after parse_sources: if phase.repeat: self.model.phases.append(phase)
Repeated(ph) == IF ph.repeat THEN Append(phases, ph) ELSE phases

\* run(): the head of the loop, and for an active phase spawn_workforce,
\* add_sources and the clearing of to_forward.
\* run(), were self.to_forward = [] to stand outside the test of phase.active.
RunPhase_ForgetForward ==
  /\ pc = "loop"
  /\ phases # <<>> /\ i < Len(phases)
  /\ \E ph \in { phases[i + 1] } :
     \E w \in { [AddSources([World EXCEPT !.to_parse = 0], ph)
                   EXCEPT !.to_forward = <<>>] } :
         /\ phase' = ph
         /\ i' = i + 1
         /\ parsed' = 0
         /\ IF ph.active
            THEN /\ parser' = SpawnParser(ph)
                 /\ pools' = SpawnPool(pools, ph, i + 1)
                 /\ Becomes(w)
                 /\ pc' = IF w.crashed THEN "crashed" ELSE "parse"
                 /\ UNCHANGED phases
            ELSE /\ Becomes([World EXCEPT !.to_parse = 0, !.to_forward = <<>>])
                 /\ phases' = Repeated(ph)
                 /\ pc' = "loop"
                 /\ UNCHANGED <<parser, pools>>
  /\ doc' = NoDoc
  /\ UNCHANGED <<parse_q, inflight, sink, an_attr, a_template>>

\* ScrapeWorker.run, one pass of its loop up to parse_sources.
RunPhase ==
  /\ pc = "loop"
  /\ phases # <<>> /\ i < Len(phases)
  /\ \E ph \in { phases[i + 1] } :
     \E w \in { [AddSources([World EXCEPT !.to_parse = 0], ph)
                   EXCEPT !.to_forward = <<>>] } :
         /\ phase' = ph
         /\ i' = i + 1
         /\ parsed' = 0
         /\ IF ph.active
            THEN /\ parser' = SpawnParser(ph)
                 /\ pools' = SpawnPool(pools, ph, i + 1)
                 /\ Becomes(w)
                 /\ pc' = IF w.crashed THEN "crashed" ELSE "parse"
                 /\ UNCHANGED phases
            ELSE /\ Becomes([World EXCEPT !.to_parse = 0])
                 /\ phases' = Repeated(ph)
                 /\ pc' = "loop"
                 /\ UNCHANGED <<parser, pools>>
  /\ doc' = NoDoc
  /\ UNCHANGED <<parse_q, inflight, sink, an_attr, a_template>>

\* run() taken up to MaxRuns passes of its loop.
RunBounded == RunPhase /\ i' <= MaxRuns

\* run(): the loop ends.
RunEnd ==
  /\ pc = "loop"
  /\ ~(phases # <<>> /\ i < Len(phases))
  /\ pc' = "done"
  /\ Quiet
  /\ UNCHANGED <<phases, i, phase, to_parse, parsed, source_q, parse_q, seen, forwarded,
                 to_forward, new_sources, parser, pools, inflight, sink,
                 accepted, admitted>>

\* parse_sources, were the test at the head of its loop never to hold.
AllParsed_Never == FALSE

\* parse_sources, the head of its loop: if self.to_parse == self.parsed
AllParsed == to_parse = parsed

\* parse_sources: to_parse == parsed, break; run() goes to the head of its loop.
ParseDone ==
  /\ pc = "parse"
  /\ AllParsed
  /\ phases' = Repeated(phase)
  /\ pc' = "loop"
  /\ Quiet
  /\ UNCHANGED <<i, phase, to_parse, parsed, source_q, parse_q, seen, forwarded,
                 to_forward, new_sources, parser, pools, inflight, sink,
                 accepted, admitted>>

\* parse_sources: parse_q.get times out; break when source_q is empty (run()
\* goes to the head of its loop), else go round the loop with source = None.
ParseTimeout ==
  /\ pc = "parse"
  /\ ~AllParsed
  /\ parse_q = <<>>
  /\ IF source_q = <<>>
     THEN phases' = Repeated(phase) /\ pc' = "loop"
     ELSE UNCHANGED <<phases, pc>>
  /\ Quiet
  /\ UNCHANGED <<i, phase, to_parse, parsed, source_q, parse_q, seen, forwarded,
                 to_forward, new_sources, parser, pools, inflight, sink,
                 accepted, admitted>>

\* parse_sources: a fetched source is taken from parse_q and parsed.  What the
\* fetch returned is read here for the first time: its data, and whether the
\* source carries a template list of its own.
ParseOne ==
  /\ pc = "parse"
  /\ ~AllParsed
  /\ parse_q # <<>>
  /\ LET x == Head(parse_q)
         templates == phases[pools[x.pool].run].templates
     IN  \E own \in BOOLEAN :
         \E data \in IF own THEN DocData(templates, x.src) ELSE {NoData} :
         \E w \in { ParseSource(World, x.src, IF own THEN templates ELSE <<>>,
                                 data, parser) } :
               /\ Becomes(w)
               /\ doc' = [parsed |-> TRUE, src |-> x.src, own |-> own, data |-> data]
               /\ pc' = IF w.crashed THEN "crashed" ELSE "parse"
  /\ parse_q' = Tail(parse_q)
  /\ parsed' = parsed + 1
  /\ UNCHANGED <<phases, i, phase, parser, pools, inflight, sink, an_attr, a_template>>

\* ParseOne, as long as the counter to_parse stays within MaxToParse.
ParseBounded == ParseOne /\ to_parse' <= MaxToParse

\* ---- fetch pool and sinks ---------------------------------------------------
\* The number of sources the workers of pool p hold.
Held(p) ==
  LET S == { x \in BagToSet(inflight) : x.pool = p }
      RECURSIVE Sum(_)
      Sum(T) == IF T = {} THEN 0
                ELSE LET x == CHOOSE y \in T : TRUE
                     IN  CopiesIn(x, inflight) + Sum(T \ {x})
  IN  Sum(S)

\* A worker whose stop event is unset takes a source from source_q.
WorkerGet ==
  /\ pc \notin {"done", "crashed"}
  /\ source_q # <<>>
  /\ pools # <<>>
  /\ ~pools[Len(pools)].stop
  /\ Held(Len(pools)) < pools[Len(pools)].n
  /\ inflight' = inflight (+) SetToBag({[src |-> Head(source_q), pool |-> Len(pools)]})
  /\ source_q' = Tail(source_q)
  /\ Quiet
  /\ UNCHANGED <<phases, i, phase, pc, to_parse, parsed, parse_q, seen, forwarded,
                 to_forward, new_sources, parser, pools, sink,
                 accepted, admitted>>

\* A worker's fetch succeeds: the source, with the fetched data, goes on
\* parse_q.
WorkerDeliver ==
  /\ pc \notin {"done", "crashed"}
  /\ \E x \in BagToSet(inflight) :
       /\ inflight' = inflight (-) SetToBag({x})
       /\ parse_q' = Append(parse_q, x)
  /\ Quiet
  /\ UNCHANGED <<phases, i, phase, pc, to_parse, parsed, source_q, seen, forwarded,
                 to_forward, new_sources, parser, pools, sink,
                 accepted, admitted>>

\* A worker's fetch fails and the source has retries left: it goes back on
\* source_q with one retry less.
WorkerRetry ==
  /\ pc \notin {"done", "crashed"}
  /\ \E x \in BagToSet(inflight) :
       /\ x.src.retries > 0
       /\ inflight' = inflight (-) SetToBag({x})
       /\ source_q' = Append(source_q, [x.src EXCEPT !.retries = @ - 1])
  /\ Quiet
  /\ UNCHANGED <<phases, i, phase, pc, to_parse, parsed, parse_q, seen, forwarded,
                 to_forward, new_sources, parser, pools, sink,
                 accepted, admitted>>

\* The drop of a source whose retries are used up, were it not counted.
WorkerDrop_Uncounted ==
  /\ pc \notin {"done", "crashed"}
  /\ \E x \in BagToSet(inflight) :
       /\ x.src.retries = 0
       /\ inflight' = inflight (-) SetToBag({x})
  /\ Quiet
  /\ UNCHANGED <<phases, i, phase, pc, to_parse, parsed, source_q, parse_q, seen,
                 forwarded, to_forward, new_sources, parser, pools, sink,
                 accepted, admitted>>

\* A worker's fetch fails and the source has no retries left: the source is
\* dropped and counted as parsed.
WorkerDrop ==
  /\ pc \notin {"done", "crashed"}
  /\ \E x \in BagToSet(inflight) :
       /\ x.src.retries = 0
       /\ inflight' = inflight (-) SetToBag({x})
  /\ parsed' = parsed + 1
  /\ Quiet
  /\ UNCHANGED <<phases, i, phase, pc, to_parse, source_q, parse_q, seen,
                 forwarded, to_forward, new_sources, parser, pools, sink,
                 accepted, admitted>>

\* ---- configurations ---------------------------------------------------------
NestedSources == { Source(EmptyStr, a, d) : a \in BOOLEAN, d \in BOOLEAN }

PlainAttr(name) == Attr(name, FALSE, DefaultSource, "")

ItemTemplate(ns, tsrc) ==
  Template("item", FALSE, TRUE, <<PlainAttr("title"), Attr("url", TRUE, ns, "")>>,
           tsrc, ns)

ReqTemplate ==
  Template("req", TRUE, FALSE, <<PlainAttr("title")>>, FALSE, DefaultSource)

TemplateLists ==
  { <<ItemTemplate(ns, FALSE)>> : ns \in NestedSources }
    \cup { <<ReqTemplate, ItemTemplate(Source(EmptyStr, TRUE, FALSE), FALSE)>> }

Seed(k) == Source(<<k>>, TRUE, FALSE)

PhaseLists(ts) ==
  { << Phase("p1", TRUE, FALSE, 1, <<Seed(1), Seed(2)>>, ts),
       Phase("p2", TRUE, FALSE, 1, <<Seed(1)>>, ts) >>,
    << Phase("p1", TRUE, TRUE, 1, <<Seed(1)>>, ts) >> }

Models == UNION { PhaseLists(ts) : ts \in TemplateLists }

NoSink == [u \in {} |-> NoAttrs]

NoTemplate == [stage |-> "none", origin |-> "config", db |-> None, table |-> None,
               db_type |-> None, name |-> "", url |-> ""]

NoAttr == [stage |-> "none", func |-> <<>>, kws |-> [type |-> "dict", val |-> NoKwargs],
           elements |-> <<>>, value |-> <<>>]

\* The function names HTMLParser has an attribute for, among those the
\* configurations use.
ParserFuncs == { "sel_text", "sel_attr", "sel_url" }

\* ScrapeWorker.check_functions: whether it returns (TRUE) or raises (FALSE).
CheckFunctions(template, ph) ==
  LET not_implemented ==
        { f \in UNION { Range(template.attrs[k].func) : k \in DOMAIN template.attrs } :
            f \notin ParserFuncs }
  IN  not_implemented = {}

\* The loop of __init__ over the templates of every phase: whether it completes.
AllChecked(model) ==
  \A p \in DOMAIN model : \A k \in DOMAIN model[p].templates :
     CheckFunctions(model[p].templates[k], model[p])

\* The state after ScrapeWorker.__init__, but for the model, the sinks and
\* an_attr.
Start ==
  /\ i = 0
  /\ phase = Phase("", FALSE, FALSE, 0, <<>>, <<>>)
  /\ pc = IF AllChecked(phases) THEN "loop" ELSE "raised"
  /\ to_parse = 0 /\ parsed = 0
  /\ source_q = <<>> /\ parse_q = <<>>
  /\ seen = {} /\ forwarded = {}
  /\ to_forward = <<>> /\ new_sources = <<>>
  /\ parser = [templates |-> [none |-> TRUE, list |-> <<>>]]
  /\ pools = <<>>
  /\ inflight = EmptyBag
  /\ accepted = {} /\ admitted = {}
  /\ calls = <<>> /\ was_reset = FALSE /\ store_q = <<>> /\ doc = NoDoc

Init ==
  /\ phases \in Models
  /\ sink = NoSink
  /\ an_attr = NoAttr
  /\ a_template = NoTemplate
  /\ Start

Next ==
  \/ RunBounded
  \/ RunEnd
  \/ ParseDone
  \/ ParseTimeout
  \/ ParseBounded
  \/ WorkerGet
  \/ WorkerDeliver

Spec == Init /\ [][Next]_vars

\* ---- scenarios --------------------------------------------------------------
\* One phase seeded with the list page and one template; only the list page
\* has items.
\* "entry": a title and a url, the url attr declaring a nested Source.
EntryTemplate ==
  Template("entry", FALSE, TRUE,
           <<PlainAttr("title"), Attr("url", TRUE, DefaultSource, "")>>,
           FALSE, DefaultSource)

\* "offer": a price and a url, the url attr declaring a nested Source and the
\* attr_condition "price".
OfferTemplate ==
  Template("offer", FALSE, TRUE,
           <<PlainAttr("price"), Attr("url", TRUE, DefaultSource, "price")>>,
           FALSE, DefaultSource)

\* The copy_attrs of a nested Source, after str_as_tuple: a single name, a
\* subset of names, 'all'.
CopyPolicies == { <<"title">>, <<"title", "price">>, <<"all">> }

\* "record": three attrs, and a nested Source with copy_attrs declared by the
\* url attr (at_attr) or by the template.
RecordTemplate(copy_attrs, at_attr) ==
  LET nested == [DefaultSource EXCEPT !.copy_attrs = copy_attrs]
  IN  Template("record", FALSE, TRUE,
               <<PlainAttr("title"), PlainAttr("price"),
                 Attr("url", at_attr, IF at_attr THEN nested ELSE DefaultSource, "")>>,
               ~at_attr, IF at_attr THEN DefaultSource ELSE nested)

\* "deal": a price and a url, the url attr declaring a nested Source and the
\* source_condition {'price': "== ('8',)"}.
DealTemplate ==
  Template("deal", FALSE, TRUE,
           <<PlainAttr("price"),
             [Attr("url", TRUE, DefaultSource, "")
                EXCEPT !.source_condition = ("price" :> << <<8>> >>)]>>,
           FALSE, DefaultSource)

\* "note": a title and no attr named url, with a template-level Source.
NoteTemplate ==
  Template("note", FALSE, TRUE, <<PlainAttr("title")>>, TRUE, DefaultSource)

\* What the sink of the offers holds for the offer of page 1: nothing, or its
\* price.
OfferSinks ==
  { NoSink } \cup { (<<1>> :> ("price" :> <<p>>)) : p \in Prices }

ListPhase(template) ==
  << Phase("list", TRUE, FALSE, 1, <<Source(ListUrl, TRUE, FALSE)>>, <<template>>) >>

\* The list phase seeded from a sink: its seed has from_db, the name of the
\* sink of its template or a name no sink has.
FromDbPhase(from_db) ==
  << Phase("list", TRUE, FALSE, 1,
           << [Source(ListUrl, TRUE, FALSE) EXCEPT !.from_db = from_db] >>,
           <<EntryTemplate>>) >>

\* The sink of the entries holding the entry of page 2.
EntrySink == (<<2>> :> ("url" :> << <<2>> >>))

Scenarios ==
  { [phases |-> ListPhase(t), sink |-> NoSink] : t \in {EntryTemplate, NoteTemplate, DealTemplate} }
    \cup { [phases |-> FromDbPhase(n), sink |-> EntrySink] : n \in {"entry", "gone"} }
    \cup { [phases |-> ListPhase(OfferTemplate), sink |-> st] : st \in OfferSinks }
    \cup { [phases |-> ListPhase(RecordTemplate(c, a)), sink |-> NoSink] :
             c \in CopyPolicies, a \in BOOLEAN }

InitScenario ==
  /\ \E m \in Scenarios : phases = m.phases /\ sink = m.sink
  /\ an_attr = NoAttr
  /\ a_template = NoTemplate
  /\ Start

NextScenario ==
  \/ RunPhase
  \/ RunEnd
  \/ ParseDone
  \/ ParseTimeout
  \/ ParseOne
  \/ WorkerGet
  \/ WorkerDeliver

SpecScenario == InitScenario /\ [][NextScenario]_vars

\* ---- schedules --------------------------------------------------------------
\* The passes of run() taken in a schedule.
MaxSchedule == 3

\* One template whose url attr declares an inactive nested Source: what it
\* spawns is forwarded to the next phase.
ForwardingTemplates == << ItemTemplate(Source(EmptyStr, FALSE, FALSE), FALSE) >>

\* The template of phase "b": that of phase "a", its title attr with a func
\* the parser has, or with one it has not.
TitleFuncs == { <<"sel_text">>, <<"sel_text", "sel_price">> }

WithFunc(templates, func) ==
  << [templates[1] EXCEPT !.attrs[1].func = func] >>

\* A phase "a", active or not, repeating or not, followed by a phase "b" with
\* an inactive and an active seed and n_workers 0, synchronizing or not.
Schedules ==
  { << Phase("a", act, rep, 1, <<Seed(1)>>, ForwardingTemplates),
       [Phase("b", TRUE, FALSE, 0, <<Source(<<1>>, FALSE, FALSE), Seed(2)>>,
              WithFunc(ForwardingTemplates, f)) EXCEPT !.synchronize = sync] >> :
      act \in BOOLEAN, rep \in BOOLEAN, sync \in BOOLEAN, f \in TitleFuncs }

\* What the sink of the items holds before the run: nothing, or the item of
\* page 2.
ItemSinks == { NoSink, (<<2>> :> ("url" :> << <<2>> >>)) }

InitSchedule ==
  /\ phases \in Schedules
  /\ sink \in (IF phases[2].synchronize THEN ItemSinks ELSE {NoSink})
  /\ an_attr = NoAttr
  /\ a_template = NoTemplate
  /\ Start

RunScheduled == RunPhase /\ i' <= MaxSchedule

NextSchedule ==
  \/ RunScheduled
  \/ RunEnd
  \/ ParseDone
  \/ ParseTimeout
  \/ ParseBounded
  \/ WorkerGet
  \/ WorkerDeliver

SpecSchedule == InitSchedule /\ [][NextSchedule]_vars

\* The schedules with run() and parse_sources going on as long as they can,
\* and workers that take a queued source and deliver a held one.
SpecScheduleFair ==
  /\ SpecSchedule
  /\ WF_vars(RunScheduled) /\ WF_vars(RunEnd)
  /\ WF_vars(ParseDone) /\ WF_vars(ParseTimeout) /\ WF_vars(ParseBounded)
  /\ WF_vars(WorkerGet) /\ WF_vars(WorkerDeliver)

\* ---- an inactive phase between two active ones ------------------------------
\* Phase "a" forwards what it spawns, phase "idle" is inactive, repeating or
\* not, with a seed of its own, and phase "c" is active.
Idles ==
  { << Phase("a", TRUE, FALSE, 1, <<Seed(1)>>, ForwardingTemplates),
       Phase("idle", FALSE, rep, 1, <<Seed(2)>>, ForwardingTemplates),
       Phase("c", TRUE, FALSE, 1, seeds, ForwardingTemplates) >> :
      rep \in BOOLEAN, seeds \in { <<>>, <<Seed(2)>> } }

InitIdle ==
  /\ phases \in Idles
  /\ sink = NoSink
  /\ an_attr = NoAttr
  /\ a_template = NoTemplate
  /\ Start

NextIdle ==
  \/ RunScheduled
  \/ RunEnd
  \/ ParseDone
  \/ ParseTimeout
  \/ ParseBounded
  \/ WorkerGet
  \/ WorkerDeliver

SpecIdle == InitIdle /\ [][NextIdle]_vars

\* ---- failing fetches --------------------------------------------------------
\* The retries a seed is given.
MaxRetries == 1

\* One phase with two seeds, each with its retries, one or two workers, and a
\* template that spawns nothing.
FetchModels ==
  { << Phase("p", TRUE, FALSE, n,
             << [Seed(1) EXCEPT !.retries = r1], [Seed(2) EXCEPT !.retries = r2] >>,
             << Template("req", FALSE, FALSE, <<PlainAttr("title")>>, FALSE,
                         DefaultSource) >>) >> :
      n \in 1..2, r1 \in 0..MaxRetries, r2 \in 0..MaxRetries }

InitFetch ==
  /\ phases \in FetchModels
  /\ sink = NoSink
  /\ an_attr = NoAttr
  /\ a_template = NoTemplate
  /\ Start

NextFetch ==
  \/ RunPhase
  \/ RunEnd
  \/ ParseDone
  \/ ParseTimeout
  \/ ParseOne
  \/ WorkerGet
  \/ WorkerDeliver
  \/ WorkerRetry
  \/ WorkerDrop

SpecFetch == InitFetch /\ [][NextFetch]_vars

\* ---- _gen_source on its own ---------------------------------------------------
\* The values of a url attr: one link, or two.
LinkValues == { << <<1>> >>, << <<1>>, <<2>> >> }

\* The (objct, attr) pairs _gen_source can be called with: an offer with its
\* price, and its url attr with a nested Source, with or without an
\* attr_condition and a source_condition.
GenSourceArgs ==
  { [objct |-> [name |-> "offer", url |-> ListUrl,
                attrs |-> ("price" :> <<p>>) @@ ("url" :> v)],
     attr |-> [NewAttr(Attr("url", TRUE, ns, ""), v)
                 EXCEPT !.attr_condition = c, !.source_condition = sc]] :
      p \in Prices, v \in LinkValues, ns \in NestedSources, c \in {"", "price"},
      sc \in { NoCondition, ("price" :> << <<8>> >>) } }

\* The loop of parse_sources over new_sources, and its clearing.
GenSourceCall ==
  /\ pc = "parse"
  /\ new_sources # <<>>
  /\ \E w \in { SpawnFrom(World, 1) } :
       /\ Becomes(IF w.crashed THEN w ELSE [w EXCEPT !.new_sources = <<>>])
       /\ pc' = IF w.crashed THEN "crashed" ELSE "parse"
  /\ doc' = NoDoc
  /\ UNCHANGED <<phases, i, phase, parsed, parse_q, parser, pools, inflight, sink,
                 an_attr, a_template>>

\* parse_sources has parsed a source; one pair is registered in new_sources.
InitGenSource ==
  /\ phases = <<>>
  /\ i = 0
  /\ phase = Phase("", FALSE, FALSE, 0, <<>>, <<>>)
  /\ pc = "parse"
  /\ to_parse = 1 /\ parsed = 1
  /\ source_q = <<>> /\ parse_q = <<>>
  /\ seen = {ListUrl} /\ forwarded = {}
  /\ to_forward = <<>>
  /\ \E a \in GenSourceArgs : new_sources = <<a>>
  /\ parser = [templates |-> [none |-> TRUE, list |-> <<>>]]
  /\ pools = <<>>
  /\ inflight = EmptyBag
  /\ accepted = {} /\ admitted = {}
  /\ calls = <<>> /\ was_reset = FALSE /\ store_q = <<>> /\ doc = NoDoc
  /\ sink \in OfferSinks
  /\ an_attr = NoAttr
  /\ a_template = NoTemplate

NextGenSource == GenSourceCall

SpecGenSource == InitGenSource /\ [][NextGenSource]_vars

\* ---- an Attr on its own -----------------------------------------------------
\* The arguments Attr(func=, kws=) can be given, and the elements its selector
\* can find.
KwsArgs ==
  { [type |-> "dict", val |-> b] : b \in Bundles }
    \cup { [type |-> t, val |-> v] : t \in {"list", "tuple"}, v \in SeqsUpTo(Bundles, MaxFuncs) }

AttrArgs ==
  { [stage |-> "args", func |-> f, kws |-> k, elements |-> e, value |-> <<>>] :
      f \in SeqsUpTo(FuncNames, MaxFuncs), k \in KwsArgs,
      e \in { <<>>, << <<"raw", NoKwargs>> >> } }

\* Attr(func=, kws=): attrs' __init__, then __attrs_post_init__.
AttrInit ==
  /\ an_attr.stage = "args"
  /\ \E r \in { AttrPostInit(an_attr.func, an_attr.kws) } :
       an_attr' = [an_attr EXCEPT !.kws = r.kws,
                                  !.stage = IF r.raised THEN "raised" ELSE "built"]
  /\ UNCHANGED <<crawl_vars, a_template>>

\* _gen_attrs for a constructed Attr: parsed = _apply_funcs(elements, attr.func,
\* attr.kws).
GenAttrs ==
  /\ an_attr.stage = "built"
  /\ \E r \in { ApplyFuncs(an_attr.elements, an_attr.func, an_attr.kws.val) } :
       an_attr' = [an_attr EXCEPT !.value = r.val,
                                  !.stage = IF r.raised THEN "IndexError" ELSE "parsed"]
  /\ UNCHANGED <<crawl_vars, a_template>>

InitAttr ==
  /\ phases = <<>>
  /\ sink = NoSink
  /\ an_attr \in AttrArgs
  /\ a_template = NoTemplate
  /\ Start

NextAttr ==
  \/ AttrInit
  \/ GenAttrs

SpecAttr == InitAttr /\ [][NextAttr]_vars

\* ---- a Template on its own -------------------------------------------------
\* The values db, table, db_type, name and url can be given.
FieldValues == {None, "", "shop"}

TemplateArgs ==
  { [stage |-> "args", origin |-> "config", db |-> d, table |-> t, db_type |-> k,
     name |-> n, url |-> u] :
      d \in FieldValues, t \in FieldValues, k \in FieldValues,
      n \in {"", "item"}, u \in {"", "/1"} }

\* The outcome of the constructor for the given fields.
Constructed(t) ==
  [t EXCEPT !.stage = IF TemplatePostInit(t.db, t.table, t.db_type).raised
                      THEN "raised" ELSE "built"]

\* Template(db=, table=, db_type=, name=, url=): attrs' __init__, then
\* __attrs_post_init__.
TemplateInit ==
  /\ a_template.stage = "args"
  /\ a_template' = Constructed(a_template)
  /\ UNCHANGED <<crawl_vars, an_attr>>

\* template._replicate(name=template.name, url=source.url, func=template.func),
\* as _gen_objects calls it: every other field at its default.
TemplateReplicate ==
  /\ a_template.stage = "built"
  /\ \E u \in {"", "/1"} :
       a_template' = Constructed([NoTemplate EXCEPT !.origin = "_replicate",
                                                    !.name = a_template.name,
                                                    !.url = u])
  /\ UNCHANGED <<crawl_vars, an_attr>>

\* Template.to_store: the constructor with the db, table, db_type, name and
\* url of self.
TemplateToStore ==
  /\ a_template.stage = "built"
  /\ a_template' = Constructed([a_template EXCEPT !.origin = "to_store"])
  /\ UNCHANGED <<crawl_vars, an_attr>>

InitTemplate ==
  /\ phases = <<>>
  /\ sink = NoSink
  /\ an_attr = NoAttr
  /\ a_template \in TemplateArgs
  /\ Start

NextTemplate ==
  \/ TemplateInit
  \/ TemplateReplicate
  \/ TemplateToStore

SpecTemplate == InitTemplate /\ [][NextTemplate]_vars

\* ---- properties ---------------------------------------------------------------

\* The enqueue operations of the current handler that put a source on the
\* live queue.
Queued == { k \in DOMAIN calls : calls[k].queued }

\* C1: in every sequence of enqueue operations (seeding by add_sources,
\* spawning by _add_source), a source whose url was already accepted onto the
\* live queue is not put on the live queue again unless its duplicate flag is
\* set.
C1_Dedup ==
  \A k \in Queued : calls[k].was_accepted => calls[k].src.duplicate

\* C2: pending - completed >= 0 in every reachable state: parsed never exceeds
\* to_parse.
C2_NonNegative == parsed <= to_parse

\* C2 witness: a document has just been parsed whose required template found
\* nothing (the queue was reset, a seed was discarded) and which spawned a
\* source.
C2_Witness ==
  /\ doc.parsed /\ was_reset /\ Queued # {}
  /\ 0 < parsed /\ parsed < to_parse

\* C3: whenever a phase completes (parse_sources has returned), to_parse equals
\* parsed.
C3_ZeroAtCompletion == (pc = "loop" /\ i > 0) => to_parse = parsed

\* C4: _add_source puts a source on the live queue iff it is active and (its
\* url is not in seen or it is a duplicate) and its url is not in forwarded;
\* every inactive source that is not put on the live queue is appended to the
\* forward list.
C4_AdmitRule ==
  \A k \in DOMAIN calls :
    LET c == calls[k]
    IN  c.via = "spawn" =>
          /\ c.queued <=> /\ c.src.active
                          /\ (~c.in_seen \/ c.src.duplicate)
                          /\ ~c.in_forwarded
          /\ (~c.queued /\ ~c.src.active) => c.deferred

\* C4, amended: a source passes _add_source's gate iff its url is non-empty
\* and (its url is not in seen or it is a duplicate) and its url is not in
\* forwarded.  A source that passes is put on the live queue if it is active
\* and appended to the forward list if it is inactive; a source that does not
\* pass is dropped, active or not.
C4_AdmitRuleAmended ==
  \A k \in DOMAIN calls :
    LET c == calls[k]
        pass == /\ Truthy(c.src.url)
                /\ (~c.in_seen \/ c.src.duplicate)
                /\ ~c.in_forwarded
    IN  c.via = "spawn" =>
          /\ c.queued <=> (pass /\ c.src.active)
          /\ c.deferred <=> (pass /\ ~c.src.active)

\* C4 witness: _add_source has dropped an inactive source whose url is in
\* seen.
C4_Witness ==
  \E k \in DOMAIN calls :
    /\ calls[k].via = "spawn" /\ ~calls[k].src.active /\ calls[k].in_seen
    /\ ~calls[k].queued /\ ~calls[k].deferred

\* C5: when a fetched document yields no record for a required template, then
\* once the document is processed the live queue is empty and the orchestrator
\* has not crashed.
C5_RequiredEmptyDrains ==
  (doc.parsed /\ was_reset) => (source_q = <<>> /\ pc # "crashed")

\* C6: in the phase seeded with the list page and the template "entry" (title,
\* url, the url attr declaring a nested Source), parsing the list page with n
\* entries delivers n records to the template's sink, puts n sources on the
\* live queue and raises to_parse by n.
C6_EndToEnd ==
  (doc.parsed /\ doc.src.url = ListUrl /\ phases[1].templates = <<EntryTemplate>>) =>
     /\ pc # "crashed"
     /\ Len(store_q) = 1
     /\ Len(store_q[1].objects) = Len(doc.data["entry"])
     /\ Cardinality(Queued) = Len(doc.data["entry"])
     /\ to_parse = 1 + Len(doc.data["entry"])

\* C7: _apply_funcs composes left to right, each stage with its own kwargs:
\* for a pipeline of n >= 1 functions with at least n kwargs bundles the value
\* is fn(...f2(f1(elements, **k1), **k2)..., **kn).
C7_Composition ==
  (/\ an_attr.stage \in {"parsed", "IndexError"}
   /\ Len(an_attr.func) >= 1
   /\ Len(an_attr.kws.val) >= Len(an_attr.func)) =>
     /\ an_attr.stage = "parsed"
     /\ an_attr.value =
          an_attr.elements \o [j \in 1..Len(an_attr.func) |->
                                 <<an_attr.func[j], an_attr.kws.val[j]>>]

\* C7 witness: the pipeline [f, g, h] with kwargs [{}, {k: 1}, {}] has been
\* applied to the selected elements.
C7_Witness ==
  /\ an_attr.stage = "parsed"
  /\ an_attr.func = <<"f", "g", "h">>
  /\ an_attr.kws.val = <<NoKwargs, { <<"k", 1>> }, NoKwargs>>
  /\ an_attr.elements # <<>>

\* C8: constructing an Attr never fails on a length mismatch and ends with
\* len(kws) = len(func).
C8_KwsPadded ==
  an_attr.stage \in {"built", "raised"} =>
    /\ an_attr.stage = "built"
    /\ Len(an_attr.kws.val) = Len(an_attr.func)

\* C9: for the url attr of "offer", declared with a nested Source and the
\* attr_condition "price": a source is emitted for an offer whose price
\* differs from the price the sink holds for it, and none for an offer whose
\* price equals the stored one.
C9_SpawnGating ==
  (/\ doc.parsed /\ doc.own /\ doc.src.url = ListUrl
   /\ phases[1].templates = <<OfferTemplate>>) =>
     \A k \in DOMAIN doc.data["offer"] :
       LET offer == doc.data["offer"][k]
           uri == offer["url"][1]
       IN  uri \in DOMAIN sink =>
             ((\E c \in Queued : calls[c].src.url = uri)
                <=> sink[uri]["price"] # offer["price"])

\* C10: for a record with three attrs, the attrs of every derived Source are
\* exactly those its copy_attrs names (a single attr, a subset, or with 'all'
\* every attr of the record), for a Source spawned from an Attr and for one
\* spawned from the Template's nested Source.
C10_CopyAttrs ==
  (/\ doc.parsed /\ doc.own /\ doc.src.url = ListUrl
   /\ phases[1].templates[1].name = "record") =>
     LET template == phases[1].templates[1]
         copy_attrs == IF template.has_source THEN template.source.copy_attrs
                       ELSE template.attrs[3].source.copy_attrs
         expected == IF copy_attrs = <<"all">> THEN {"title", "price", "url"}
                     ELSE Range(copy_attrs)
     IN  /\ pc # "crashed"
         /\ calls # <<>>
         /\ \A k \in DOMAIN calls : DOMAIN calls[k].src.attrs = expected

\* C11: a phase is declared exhausted (parse_sources has returned) only when
\* to_parse equals parsed and the live queue is empty, and never while a fetch
\* worker holds a source or a fetched source waits to be parsed.
C11_ExhaustedOnlyWhenDrained ==
  (pc = "loop" /\ i > 0) =>
     /\ to_parse = parsed
     /\ source_q = <<>>
     /\ inflight = EmptyBag
     /\ parse_q = <<>>

\* C12: when a phase with repeat set completes, model.phases grows by exactly
\* that phase at its tail, and phases are taken in the order of the sequence, so
\* that every phase standing behind the repeating one runs before its copy does.
C12_RepeatAtTail ==
  [][ /\ (pc' = "loop" /\ (pc = "parse" \/ i' # i) /\ phase'.repeat)
           => phases' = Append(phases, phase')
      /\ phases' # phases
           => (pc' = "loop" /\ phase'.repeat /\ phases' = Append(phases, phase'))
      /\ i' # i => (i' = i + 1 /\ phase' = phases[i']) ]_vars

\* "a" has run, then "b", and the copy of "a" at the tail is running.
C12_Witness ==
  /\ i = 3 /\ Len(phases) >= 3
  /\ phases[1].repeat /\ phases[3] = phases[1] /\ phases[2].name = "b"
  /\ phase = phases[3] /\ pc = "parse"

\* C13: the sources add_sources puts on the live queue for a phase with
\* synchronize set, seeds and forwarded sources alike, have urls the sink of
\* the phase's templates does not hold.
C13_SynchronizeSkipsStored ==
  (pc = "parse" /\ phase.synchronize) =>
     \A k \in DOMAIN calls :
        calls[k].via \in {"fwd", "seed"} => calls[k].src.url \notin GetScrapedUrls(World, phase)

\* C20: the start of an active phase without synchronize puts on the live queue
\* the forwarded sources and then the phase's active seeds, each once and in
\* that order, leaves to_parse at the number of sources put, and leaves
\* to_forward empty.
C20_Seeding ==
  [][ (i' # i /\ phase'.active /\ ~phase'.synchronize) =>
         LET IsActive(s) == s.active
         IN  /\ source_q' = source_q \o to_forward \o SelectSeq(phase'.sources, IsActive)
             /\ to_parse' = Len(source_q') - Len(source_q)
             /\ to_forward' = <<>>
             /\ pc' = "parse" ]_vars

\* Phase "b" has just started: a forwarded source and then its active seed were
\* put, its inactive seed was not.
C20_Witness ==
  /\ pc = "parse" /\ phase.name = "b" /\ ~phase.synchronize /\ to_parse = 2
  /\ Len(calls) = 2 /\ calls[1].via = "fwd" /\ calls[2].via = "seed"
  /\ \E k \in DOMAIN phase.sources : ~phase.sources[k].active

\* C14: of the items of a parsed page, those whose every extracted attr is
\* empty give no record and spawn no template-level Source, and every other
\* item of the page gives its record.
C14_FailedExtractionSkipped ==
  (doc.parsed /\ doc.own /\ doc.src.url = ListUrl
     /\ phases[1].templates = <<NoteTemplate>>) =>
     LET items == doc.data["note"]
         filled == { k \in DOMAIN items : Truthy(items[k]["title"]) }
     IN  /\ Len(store_q) = 1
         /\ Len(store_q[1].objects) = Cardinality(filled)
         /\ filled = {} => calls = <<>>

\* C15, as claimed: the constructor raises when db_type is set without table
\* and when table or db is set without db_type, and succeeds when db_type and
\* table are both set or both unset.
C15_KindAndTable ==
  a_template.stage \in {"built", "raised"} =>
    LET kind == IsSet(a_template.db_type)
        table == IsSet(a_template.table)
        db == IsSet(a_template.db)
    IN  /\ (kind /\ ~table) => a_template.stage = "raised"
        /\ ((table \/ db) /\ ~kind) => a_template.stage = "raised"
        /\ ((kind /\ table) \/ (~kind /\ ~table)) => a_template.stage = "built"

\* C15, amended: the constructor succeeds exactly when db, table and db_type
\* are all three set or all three unset, so every Template that exists, made
\* from configuration, by _replicate or by to_store, has all three or none.
C15_SinkIdentity ==
  a_template.stage \in {"built", "raised"} =>
    LET kind == IsSet(a_template.db_type)
        table == IsSet(a_template.table)
        db == IsSet(a_template.db)
    IN  a_template.stage = "built" <=> ((kind /\ table /\ db) \/ (~kind /\ ~table /\ ~db))

\* A Template with db, table and db_type set was constructed and to_store made
\* its replica.
C15_Witness ==
  /\ a_template.stage = "built" /\ a_template.origin = "to_store"
  /\ IsSet(a_template.db_type) /\ IsSet(a_template.table) /\ IsSet(a_template.db)

\* C16: a failed fetch puts the source back on the live queue with one retry
\* less while it has retries left, and otherwise drops it and counts it as
\* parsed; the sources not yet accounted for in parsed are those on source_q,
\* with a worker or on parse_q, so a phase whose sources were all dropped has
\* to_parse = parsed.
C16_FailedFetchAccounted ==
  [][ /\ (pc = "parse" /\ pc' = "parse" /\ parse_q' = parse_q
             /\ BagCardinality(inflight') < BagCardinality(inflight)) =>
           \E x \in BagToSet(inflight) :
              /\ inflight' = inflight (-) SetToBag({x})
              /\ IF x.src.retries > 0
                 THEN /\ source_q' = Append(source_q, [x.src EXCEPT !.retries = @ - 1])
                      /\ parsed' = parsed
                 ELSE /\ source_q' = source_q
                      /\ parsed' = parsed + 1
      /\ pc' = "parse" =>
           to_parse' - parsed' =
             Len(source_q') + BagCardinality(inflight') + Len(parse_q') ]_vars

\* Both seeds were dropped, the first after its retry, nothing was parsed, and
\* to_parse = parsed.
C16_Witness ==
  /\ pc = "parse" /\ seen = {} /\ to_parse = 2 /\ parsed = 2
  /\ phases[1].sources[1].retries = 1
  /\ source_q = <<>> /\ inflight = EmptyBag /\ parse_q = <<>>

\* C17: when a template of a phase names a function its parser does not have,
\* the error is raised as that phase starts, after the phases before it ran.
C17_ConfigErrorAtPhaseStart ==
  pc = "raised" =>
    /\ i >= 1
    /\ \E k \in DOMAIN phases[i].templates : ~CheckFunctions(phases[i].templates[k], phases[i])
    /\ \A p \in 1..(i - 1) : \A k \in DOMAIN phases[p].templates :
          CheckFunctions(phases[p].templates[k], phases[p])

\* C19: parsing a page with a deal whose price does not satisfy the
\* source_condition declared on the url attr emits no Source from that attr.
C19_SourceConditionGates ==
  (doc.parsed /\ doc.own /\ doc.src.url = ListUrl
     /\ phases[1].templates = <<DealTemplate>>) =>
     \A k \in DOMAIN doc.data["deal"] :
        doc.data["deal"][k]["price"] # << <<8>> >> => calls = <<>>

C21_SeenForwardedDisjoint == seen \cap forwarded = {}

\* C22: every run of an active phase has started one pool, of n_workers workers
\* (num_getters when n_workers is 0), and one parser for its templates; the
\* stop event of every pool but the last is set.
C22_OnePoolPerPhase ==
  /\ \A k \in DOMAIN pools :
        /\ k < Len(pools) => pools[k].stop
        /\ pools[k].run \in 1..i /\ phases[pools[k].run].active
        /\ pools[k].n = IF phases[pools[k].run].n_workers # 0
                        THEN phases[pools[k].run].n_workers ELSE NumGetters
        /\ \A j \in DOMAIN pools : j < k => pools[j].run < pools[k].run
  /\ Len(pools) = Cardinality({ r \in 1..i : phases[r].active })
  /\ pc = "parse" => parser = SpawnParser(phase)

\* Phase "b", with n_workers 0, runs with the second pool; the first is stopped.
C22_Witness ==
  /\ pc = "parse" /\ Len(pools) = 2 /\ pools[1].stop /\ ~pools[2].stop
  /\ phase.n_workers = 0 /\ pools[2].n = NumGetters

\* C23: once run() has returned, after which nothing sets a stop event, the
\* stop event of every pool that was started is set.
C23_EveryPoolSignaled ==
  pc = "done" => \A k \in DOMAIN pools : pools[k].stop

\* C24: for "record" with its nested Source declared by the template, every
\* Source emitted while the list page is parsed has the fields of that nested
\* Source and, for its url, the nested Source's src_template filled with the
\* url value of a record of the page; one is emitted for each record.
C24_TemplateSourceInstance ==
  (doc.parsed /\ doc.own /\ doc.src.url = ListUrl
     /\ phases[1].templates[1].name = "record" /\ phases[1].templates[1].has_source) =>
     LET nested == phases[1].templates[1].source
         records == doc.data["record"]
     IN  /\ Len(calls) = Len(records)
         /\ \A c \in DOMAIN calls :
               /\ calls[c].src.active = nested.active
               /\ calls[c].src.duplicate = nested.duplicate
               /\ calls[c].src.copy_attrs = nested.copy_attrs
               /\ calls[c].src.parent = nested.parent
               /\ calls[c].src.src_template = nested.src_template
               /\ calls[c].src.url = ApplySrcTemplate(nested, records[c]["url"][1])

\* C25: in every step model.phases keeps the entries it has, at their indices,
\* and gains at most one at its tail; it changes only as run() comes back to
\* the head of its loop, and no step that parses, spawns, seeds or resets the
\* queue changes it.
C25_PhasesAppendOnly ==
  [][ /\ Len(phases') \in {Len(phases), Len(phases) + 1}
      /\ SubSeq(phases', 1, Len(phases)) = phases
      /\ phases' # phases => (pc' = "loop" /\ (pc = "parse" \/ i' # i))
      /\ (doc'.parsed \/ was_reset' \/ calls' # <<>> \/ (i' # i /\ phase'.active))
           => phases' = phases ]_vars

\* Phase "a" has parsed a page and was appended behind "b", which has not run.
C25_Witness ==
  /\ pc = "loop" /\ i = 1 /\ seen # {} /\ Len(phases) = 3
  /\ phases[3] = phases[1] /\ phases[2].name = "b"

\* C26: a phase whose seed has from_db starts with the records of the named
\* sink as its seeds: the from_db Source itself is not put on the live queue,
\* and a Source is put for every record the sink holds.
C26_SeededFromSink ==
  (i = 1 /\ \E k \in DOMAIN phase.sources : IsSet(phase.sources[k].from_db)) =>
     /\ (doc = NoDoc /\ seen = {}) => pc # "crashed"
     /\ \A k \in DOMAIN phase.sources :
           IsSet(phase.sources[k].from_db) => phase.sources[k].url \notin accepted
     /\ DOMAIN sink \subseteq accepted

\* C27: seen and forwarded never lose a url, at a phase boundary or in a reset
\* of the queue; every url _add_source admitted and every url parsed is in
\* seen; and _add_source turns down a url in seen unless the source has
\* duplicate set, and a url in forwarded whatever duplicate is.
C27_SetsOnlyGrow ==
  [][ /\ seen \subseteq seen' /\ forwarded \subseteq forwarded'
      /\ admitted' \subseteq seen'
      /\ doc'.parsed => doc'.src.url \in seen'
      /\ \A c \in DOMAIN calls' :
            (calls'[c].via = "spawn"
               /\ ((calls'[c].in_seen /\ ~calls'[c].src.duplicate) \/ calls'[c].in_forwarded))
              => (~calls'[c].queued /\ ~calls'[c].deferred) ]_vars

\* In the second pass of run(), _add_source has turned down a source with
\* duplicate set whose url was forwarded.
C27_Witness ==
  /\ i = 2
  /\ \E c \in DOMAIN calls :
        /\ calls[c].via = "spawn" /\ calls[c].in_forwarded /\ calls[c].src.duplicate
        /\ ~calls[c].queued /\ ~calls[c].deferred

\* C28: when run() has returned, after which nothing is put on the live queue,
\* no Source is left on the forward list and every forwarded url has been put
\* on the live queue.
C28_NoDeferredSourceLost ==
  pc = "done" => (to_forward = <<>> /\ forwarded \subseteq accepted)

\* C29: a document parse_sources takes from parse_q and counts in parsed was
\* fetched by the pool of the phase that is running.
C29_ParsedInOwnPhase ==
  [][ (parse_q # <<>> /\ parse_q' = Tail(parse_q) /\ parsed' = parsed + 1)
        => pools[Head(parse_q).pool].run = i ]_vars

\* C30: a run whose phases all have repeat unset comes to the end of the loop
\* of run(), and a run with a phase that has repeat set never does.
C30_Terminates ==
  /\ (AllChecked(phases) /\ \A p \in DOMAIN phases : ~phases[p].repeat) => <>(pc = "done")
  /\ []((\E p \in DOMAIN phases : phases[p].repeat) => pc # "done")

\* C31: the pass of run() over an inactive phase spawns no pool, signals none,
\* makes no parser, puts and parses nothing, and leaves the live queue, the
\* parse queue, the sources held, seen, forwarded and to_forward as they were;
\* the active phase that comes after it puts the whole of to_forward on the
\* live queue.
C31_InactiveIsNoOp ==
  [][ /\ (i' # i /\ ~phase'.active) =>
           /\ pools' = pools /\ parser' = parser
           /\ source_q' = source_q /\ parse_q' = parse_q /\ inflight' = inflight
           /\ seen' = seen /\ forwarded' = forwarded /\ to_forward' = to_forward
           /\ accepted' = accepted /\ admitted' = admitted /\ sink' = sink
           /\ calls' = <<>> /\ store_q' = <<>> /\ ~was_reset' /\ ~doc'.parsed
           /\ pc' = "loop"
      /\ (i' # i /\ i >= 1 /\ ~phase.active /\ phase'.active) =>
           /\ Len(source_q') >= Len(source_q) + Len(to_forward)
           /\ SubSeq(source_q', Len(source_q) + 1, Len(source_q) + Len(to_forward))
                = to_forward ]_vars

\* Phase "c" has just started after the inactive phase, and the first source
\* it put is one phase "a" had forwarded.
C31_Witness ==
  /\ pc = "parse" /\ i = 3 /\ phase.name = "c" /\ ~phases[2].active
  /\ calls # <<>> /\ calls[1].via = "fwd" /\ calls[1].src.url \in forwarded
  /\ Len(pools) = 2 /\ pools[2].run = 3

\* C32: once a document is parsed, the batches put on the sinks' queues are one
\* for each template of the phase that declares a sink, in the order of the
\* templates, each with the name of its template and holding the records
\* _gen_objects gives for that document and template, none when the
\* extraction gave none.
C32_OneBatchPerSink ==
  doc.parsed =>
     LET HasDb(t) == t.db
         with_sink == SelectSeq(phase.templates, HasDb)
     IN  /\ Len(store_q) = Len(with_sink)
         /\ \A k \in DOMAIN with_sink :
               /\ store_q[k].name = with_sink[k].name
               /\ store_q[k].objects =
                    GenObjects(World, with_sink[k], Extract(doc.data, with_sink[k]),
                               doc.src).objects

====
